---- MODULE Spec2Model ----
(***************************************************************************)
(* Multi-tenant RAG pipeline: document ingestion with versioning           *)
(* (api/apps/documents/services.py), the vector index gateway              *)
(* (api/core/vector_store.py), the result cache (api/core/cache.py) and    *)
(* the query orchestrators (api/apps/rag/services.py) with the semantic    *)
(* router (api/core/semantic_router.py) and the answer generator           *)
(* (api/core/llm.py).                                                      *)
(*                                                                         *)
(* The relational store is modelled at READ COMMITTED: a session reads     *)
(* the committed rows plus its own pending rows, and its pending rows      *)
(* become visible to others at session.commit().  The vector index and     *)
(* the cache are shared and non-transactional: each call takes effect at   *)
(* once.  An await on a store that another running task reads or writes    *)
(* is a step boundary; the chat history and the query log are touched by   *)
(* the one query request only, so their calls are taken with the step      *)
(* they follow.                                                            *)
(***************************************************************************)
EXTENDS Integers, Sequences, FiniteSets, TLC

\* ------------------------------------------------------------------------
\* Bounds and inputs
\* ------------------------------------------------------------------------

\* Number of Document ids (uuid4 values) the model hands out.
MaxDocs == 3

\* Number of Document ids handed out while queries run against the index.
MaxIndexedDocs == 2

\* Ingestion tasks (API requests or Celery workers) that may run at once.
Procs == {"w1", "w2"}

\* Query requests that may run at once.
QProcs == {"q1"}

\* The requests in flight when two queries of one chat session overlap.
SessionProcs == {"q1", "q2"}

\* documents/services.py:21
VALID_DEPARTMENTS == {"Sales", "HR", "Finance", "Operations", "Manufacturing", "IT"}

\* documents/services.py:62, the department that may upload anywhere
PRIVILEGED_DEPARTMENT == "IT"

\* Target departments tried by uploads ("Legal" is not a valid department).
TargetDepartments == {"HR", "Sales", "Legal"}

\* Departments of the authenticated callers.
UserDepartments == {"HR", "Sales", "IT"}

Titles == {"Leave Policy"}

\* Length in words of the uploaded content.
ContentLengths == {0, 700}

\* documents/services.py:89
ChunkSize == 500

\* documents/services.py:89
Overlap == 50

\* The two query endpoints: rag_query and rag_query_stream.
Variants == {"blocking", "stream"}

\* Departments of the callers who query.
QueryDepartments == {"HR", "Sales"}

\* Characters of the query strings tried: an upper-case letter, its
\* lower-case form and a whitespace character.
Chars == {"L", "l", " "}

\* request.query of the queries sent through the pipeline.
QueryTexts == {<<"L", "l">>}

\* Values of request.max_results tried.
ResultLimits == {1, 2}

\* Number of query requests received.
MaxQueries == 2

\* Length of the query strings given to get_key.
MaxQueryLen == 2

\* Number of fragments the LLM provider streams for one answer.
MaxFragments == 2

\* Length in characters of the texts given to _chunk_text.
MaxTextLen == 7

\* Largest chunk_size, and largest overlap, given to _chunk_text.
MaxChunkSize == 3

\* Number of turns appended to one chat session, and largest limit given
\* to get_chat_history, when the two are exercised on their own.
MaxHistoryLen == 4

MaxLimit == 4

\* Iterations of the loop of _chunk_text that are followed; a call that
\* terminates makes at most one per word.
MaxIterations == MaxTextLen

\* Characters of the texts given to _chunk_text: a letter and a whitespace
\* character, so that words differ by their length.
TextChars == {"a", " "}

\* request.session_id: Python None, or the id of a chat session.
None == "None"

Sessions == {"s1"}

SessionIds == {None} \cup Sessions

\* Texts are sequences of characters; a fixed sentence of the code counts as
\* one character.  A provider fragment is a text, possibly the empty one.
FragmentTexts == {<<>>, <<"a">>}

\* Values of (time.time() - start_time) * 1000 tried.
Latencies == {40, 250}

\* confidence_score values the router's provider answers with, in
\* hundredths: 0.0, 0.95 and 1.7.
ConfidenceScores == {0, 95, 170}

\* semantic_router.py:22-30
RoutedAgent ==
    {"rag", "power_bi", "gtm_api", "erp_api", "qms", "document_search", "unknown"}

\* routed_to values the router's provider answers with ("billing" is not a
\* member of RoutedAgent).
ProviderAgents == {"rag", "power_bi", "unknown", "billing"}

\* ------------------------------------------------------------------------
\* State
\* ------------------------------------------------------------------------

VARIABLES
    documents,   \* committed rows of table documents
    chunks,      \* committed rows of table document_chunks
    vectors,     \* records of the Pinecone index
    next_id,     \* next fresh uuid4
    ingest,      \* per ingestion task: position, request, session-local rows
    returned,    \* how the latest ingest_document call ended ("none" once a
                 \* later call is under way)
    raced,       \* history: some call read its version while another call for
                 \* the same (title, department) held the same version uncommitted
    cache,       \* Redis result cache: key -> cached payload and its TTL
    query,       \* per query request: position, request, retrieved docs,
                 \* response, events streamed, calls made to collaborators
    history,     \* Redis chat history lists: session id -> turns
    query_log,   \* rows of table query_logs, in insertion order
    requests,    \* number of query requests received
    call         \* the latest call of a pure function: arguments and results

ingestVars == <<documents, chunks, next_id, ingest, returned, raced>>
queryVars == <<cache, query, history, query_log, requests>>
vars == <<documents, chunks, vectors, next_id, ingest, returned, raced,
          cache, query, history, query_log, requests, call>>

\* ------------------------------------------------------------------------
\* Pure helpers
\* ------------------------------------------------------------------------

Max(S) == CHOOSE x \in S : \A y \in S : y <= x

\* Number of chunks _chunk_text returns for a text of nwords words: the
\* loop starts a chunk at i = 0 and advances i by chunk_size - overlap
\* while i < len(words).
RECURSIVE ChunkStarts(_, _, _, _)
ChunkStarts(i, nwords, chunk_size, overlap) ==
    IF i >= nwords THEN 0
    ELSE 1 + ChunkStarts(i + (chunk_size - overlap), nwords, chunk_size, overlap)

ChunkCount(nwords) ==
    IF nwords = 0 THEN 0 ELSE ChunkStarts(0, nwords, ChunkSize, Overlap)

\* f"{doc_id_str}_chunk_{idx}": the uuid has a fixed width, so the string is
\* determined by, and determines, the pair (document id, index).
VectorIdMutIndexOnly(doc_id, idx) == <<"_chunk_", idx>>

VectorId(doc_id, idx) == <<doc_id, "_chunk_", idx>>

\* Document.find_many(filters={title, department}) on a set of visible rows.
DocsOf(rows, title, department) ==
    {d \in rows : d.title = title /\ d.department = department}

\* The parameters BaseModel.find_many names (base_model.py:135-144) and the
\* mapped attributes of Document (documents/models.py:15-33,
\* base_model.py:39-50).
FindManyParameters == {"db", "limit", "offset", "filters", "order_by", "order_desc"}

DocumentAttributes ==
    {"id", "created_at", "updated_at", "is_deleted", "title", "department",
     "doc_type", "source_url", "version", "is_active", "allowed_departments",
     "chunks"}

\* The keyword arguments of the find_many call of _deactivate_old_versions
\* (documents/services.py:214-223); the call of _get_next_version
\* (documents/services.py:179-185) passes named parameters only.
DeactivateArguments == {"db", "filters", "limit", "options"}

\* BaseModel.find_many, base_model.py:156-158: every keyword argument the
\* signature does not name lands in **kwargs and is handed to
\* query.filter_by, which raises InvalidRequestError for a name that is not
\* an attribute of the model.
FindManyRaises(arguments) ==
    \E a \in arguments \ FindManyParameters : a \notin DocumentAttributes

\* _get_next_version: highest version of the pair plus one, 1 if none.
GetNextVersionMutAlwaysOne(rows, title, department) == 1

GetNextVersion(rows, title, department) ==
    LET found == DocsOf(rows, title, department)
    IN  IF found = {} THEN 1 ELSE Max({d.version : d \in found}) + 1

\* ingest_document guard clauses: the error raised, or "ok".
ValidateMutNoPrivilege(department, user_department) ==
    IF department \notin VALID_DEPARTMENTS THEN "InvalidDepartmentError"
    ELSE IF user_department /= department
         THEN "PermissionDeniedException"
    ELSE "ok"

Validate(department, user_department) ==
    IF department \notin VALID_DEPARTMENTS THEN "InvalidDepartmentError"
    ELSE IF user_department /= PRIVILEGED_DEPARTMENT /\ user_department /= department
         THEN "PermissionDeniedException"
    ELSE "ok"

InFlight(p) == ingest[p].pc /= "idle"

IdleIngest ==
    [pc |-> "idle", title |-> "", department |-> "", user_department |-> "",
     nchunks |-> 0, version |-> 0, doc_id |-> 0, embed_failed |-> FALSE,
     idx |-> 0, old_docs |-> {}, ids |-> {}]

\* The outcome of a call: "ok" or the exception raised; a rejected call
\* also shows the request it rejected, and a call that returns shows the
\* id and the chunk_count of its DocumentResponse.
Returned(result, department, user_department) ==
    [result |-> result, department |-> department, user_department |-> user_department,
     id |-> 0, chunk_count |-> 0]

\* A request record before any request: the request's arguments, the
\* history read, the routing decision, the filter of the vector search (no
\* field before the search), the retrieved docs, the response,
\* the events streamed, the calls made to the collaborators in order,
\* what the provider's stream did (whether it raised, and the text it had
\* produced by then), and whether the insert of the QueryLog row failed.
IdleQuery ==
    [pc |-> "idle", variant |-> "", department |-> "", text |-> <<>>,
     max_results |-> 0, session_id |-> None, chat_history |-> <<>>,
     routed_to |-> "", confidence_score |-> 0,
     search_filter |-> << >>, search_raised |-> FALSE, docs |-> {}, answer |-> <<>>, sources |-> {}, confidence |-> "",
     latency_ms |-> 0, cached |-> FALSE,
     events |-> <<>>, calls |-> <<>>,
     gen_failed |-> FALSE, partial |-> <<>>, log_failed |-> FALSE,
     cancelled |-> FALSE, consumed_at_cancel |-> 0, consumed |-> 0,
     events_at_cancel |-> 0]

\* ------------------------------------------------------------------------
\* Initial state
\* ------------------------------------------------------------------------

Init ==
    /\ documents = {}
    /\ chunks = {}
    /\ vectors = {}
    /\ next_id = 1
    /\ ingest = [p \in Procs |-> IdleIngest]
    /\ returned = Returned("none", "", "")
    /\ raced = FALSE
    /\ cache = <<>>
    /\ query = [q \in QProcs \cup SessionProcs |-> IdleQuery]
    /\ history = [s \in Sessions |-> <<>>]
    /\ query_log = <<>>
    /\ requests = 0
    /\ call = [op |-> "none"]

\* ------------------------------------------------------------------------
\* ingest_document
\* ------------------------------------------------------------------------

\* generate_embeddings_batch (services.py:96, embeddings.py:67-80, 127-140):
\* no texts, no provider call; a provider failure is caught and answered
\* with one zero vector per text, so the call returns either way.
GenerateBatchMutRaises(n, provider_ok) ==
    IF n = 0 THEN "empty"
    ELSE IF provider_ok THEN "embeddings" ELSE "raised"

GenerateBatch(n, provider_ok) ==
    IF n = 0 THEN "empty"
    ELSE IF provider_ok THEN "embeddings" ELSE "zero_vectors"

\* Entry of ingest_document up to the upsert loop (services.py:57-96): the
\* guard clauses, which raise before the first await; then
\* _get_next_version, which reads the committed rows,
\* Document.create(commit=False) and session.flush, which leave the new row
\* pending in this session, _chunk_text and generate_embeddings_batch.  The
\* steps after the version read touch nothing another task can see, so they
\* are taken together with it.
IngestStart(p, title, department, user_department, nwords, provider_ok) ==
    /\ ~InFlight(p)
    /\ LET verdict == Validate(department, user_department)
           n == ChunkCount(nwords)
           version == GetNextVersion(documents, title, department)
       IN  IF verdict /= "ok"
           THEN /\ ingest' = [ingest EXCEPT ![p] = IdleIngest]
                /\ returned' = Returned(verdict, department, user_department)
                /\ UNCHANGED <<next_id, raced>>
           ELSE /\ next_id <= MaxDocs
                /\ next_id' = next_id + 1
                /\ IF GenerateBatch(n, provider_ok) = "raised"
                   THEN /\ ingest' = [ingest EXCEPT ![p] = IdleIngest]
                        /\ returned' = Returned("EmbeddingError", "", "")
                        /\ UNCHANGED raced
                   ELSE /\ returned' = Returned("none", "", "")
                        /\ raced' = (raced \/ \E r \in Procs \ {p} :
                                        /\ InFlight(r)
                                        /\ ingest[r].title = title
                                        /\ ingest[r].department = department
                                        /\ ingest[r].version = version)
                        /\ ingest' = [ingest EXCEPT ![p] =
                          [IdleIngest EXCEPT
                             !.title = title, !.department = department,
                             !.user_department = user_department,
                             !.nchunks = n,
                             !.version = version,
                             !.doc_id = next_id,
                             !.embed_failed =
                                (GenerateBatch(n, provider_ok) = "zero_vectors"),
                             !.pc = "upsert"]]
    /\ UNCHANGED <<documents, chunks, vectors, queryVars, call>>

\* VectorStore.upsert with the metadata built at services.py:104-113: the
\* record is written to the index at once, outside the relational session,
\* and it is written with is_active = True.
UpsertMetadataMutInactive(p, i) ==
    [id |-> VectorId(ingest[p].doc_id, i),
     document_id |-> ingest[p].doc_id, department |-> ingest[p].department,
     chunk_index |-> i, title |-> ingest[p].title,
     version |-> ingest[p].version, is_active |-> FALSE]

UpsertMetadata(p, i) ==
    [id |-> VectorId(ingest[p].doc_id, i),
     document_id |-> ingest[p].doc_id, department |-> ingest[p].department,
     chunk_index |-> i, title |-> ingest[p].title,
     version |-> ingest[p].version, is_active |-> TRUE]

\* Pinecone upsert: insert, or replace the record stored under the same id.
VectorUpsert(index, rec) == {v \in index : v.id /= rec.id} \cup {rec}

\* One iteration of the loop at services.py:98-123.
IngestUpsert(p) ==
    /\ ingest[p].pc = "upsert"
    /\ ingest[p].idx < ingest[p].nchunks
    /\ vectors' = VectorUpsert(vectors, UpsertMetadata(p, ingest[p].idx))
    /\ ingest' = [ingest EXCEPT ![p].idx = ingest[p].idx + 1]
    /\ UNCHANGED <<documents, chunks, next_id, returned, raced, queryVars, call>>

\* PendingDoc and PendingChunks: the rows this session holds uncommitted.
PendingDoc(p) ==
    [id |-> ingest[p].doc_id, title |-> ingest[p].title,
     department |-> ingest[p].department, version |-> ingest[p].version,
     is_active |-> TRUE]

PendingChunks(p) ==
    {[document_id |-> ingest[p].doc_id, chunk_index |-> i,
      vector_id |-> VectorId(ingest[p].doc_id, i)] : i \in 0..(ingest[p].nchunks - 1)}

\* The documents table after a session ends without commit: its pending
\* rows are discarded.
RolledBackMutDocCommitted(rows, p) == rows \cup {PendingDoc(p)}

RolledBack(rows, p) == rows

\* An exception leaves ingest_document before session.commit(); the session
\* is closed by its owner (tasks.py:141-147).  Nothing written to the vector
\* index is taken back.
Abort(p, error) ==
    /\ documents' = RolledBack(documents, p)
    /\ ingest' = [ingest EXCEPT ![p] = IdleIngest]
    /\ returned' = Returned(error, "", "")
    /\ UNCHANGED <<chunks, vectors, next_id, raced, queryVars, call>>

\* vector_store.upsert raises (services.py:101).
IngestUpsertFail(p) ==
    /\ ingest[p].pc = "upsert"
    /\ ingest[p].idx < ingest[p].nchunks
    /\ Abort(p, "UpsertError")

\* _deactivate_old_versions, services.py:214-235: the active Documents of the
\* pair other than the new one, and the vector ids of their chunks.
OldDocs(p) ==
    {d.id : d \in {x \in DocsOf(documents \cup {PendingDoc(p)},
                                ingest[p].title, ingest[p].department) :
                      x.is_active /\ x.id /= ingest[p].doc_id}}

VectorIdsToDeactivate(old) == {c.vector_id : c \in {x \in chunks : x.document_id \in old}}

\* End of the upsert loop: DocumentChunk.create_many(commit=False), then
\* "if version > 1" the read half of _deactivate_old_versions
\* (services.py:125-140, 211-235).  The read is
\* Document.find_many(..., options=[selectinload(Document.chunks)]):
\* find_many has no parameter `options`, so the call raises before any
\* Document is marked and before the vector index is touched, and the
\* exception leaves ingest_document.
IngestSupersede(p) ==
    /\ ingest[p].pc = "upsert"
    /\ ingest[p].idx = ingest[p].nchunks
    /\ IF ingest[p].version > 1 /\ FindManyRaises(DeactivateArguments)
       THEN Abort(p, "InvalidRequestError")
       ELSE /\ IF ingest[p].version > 1
               THEN LET old == OldDocs(p)
                        ids == VectorIdsToDeactivate(old)
                    IN  ingest' = [ingest EXCEPT
                           ![p].old_docs = old,
                           ![p].ids = ids,
                           ![p].pc = IF ids = {} THEN "commit"
                                     ELSE "update_metadata"]
               ELSE ingest' = [ingest EXCEPT ![p].pc = "commit"]
            /\ UNCHANGED <<documents, chunks, vectors, next_id, returned, raced,
                           queryVars, call>>

\* Pinecone update(id, set_metadata={"is_active": False}).
VectorSetInactive(index, id) ==
    {IF v.id = id THEN [v EXCEPT !.is_active = FALSE] ELSE v : v \in index}

\* One iteration of the loop in VectorStore.update_metadata_by_ids
\* (vector_store.py:193-199).  The order of the ids follows the unordered
\* chunks relation, so any remaining id may come next.
IngestUpdateMetadata(p) ==
    /\ ingest[p].pc = "update_metadata"
    /\ \E id \in ingest[p].ids :
         /\ vectors' = VectorSetInactive(vectors, id)
         /\ ingest' = [ingest EXCEPT
               ![p].ids = ingest[p].ids \ {id},
               ![p].pc = IF ingest[p].ids = {id} THEN "commit" ELSE "update_metadata"]
    /\ UNCHANGED <<documents, chunks, next_id, returned, raced, queryVars, call>>

\* index.update raises inside update_metadata_by_ids.
IngestUpdateMetadataFail(p) ==
    /\ ingest[p].pc = "update_metadata"
    /\ Abort(p, "UpdateMetadataError")

\* session.commit() (services.py:143): the pending Document, its chunk rows
\* and the is_active = False of the old versions become visible together.
CommitRowsMutReplacesRows(rows, p) == {PendingDoc(p)}

CommitRowsMutDeactivationOnly(rows, p) ==
    {IF d.id \in ingest[p].old_docs THEN [d EXCEPT !.is_active = FALSE] ELSE d :
        d \in rows}

CommitRows(rows, p) ==
    {IF d.id \in ingest[p].old_docs THEN [d EXCEPT !.is_active = FALSE] ELSE d :
        d \in rows \cup {PendingDoc(p)}}

\* DocumentResponse (services.py:148-155): chunk_count is
\* len(chunk_records), one record per iteration of the upsert loop.
DocumentResponse(doc_id, chunk_records) ==
    [Returned("ok", "", "") EXCEPT !.id = doc_id, !.chunk_count = chunk_records]

IngestCommit(p) ==
    /\ ingest[p].pc = "commit"
    /\ documents' = CommitRows(documents, p)
    /\ chunks' = chunks \cup PendingChunks(p)
    /\ ingest' = [ingest EXCEPT ![p] = IdleIngest]
    /\ returned' = DocumentResponse(ingest[p].doc_id, ingest[p].idx)
    /\ UNCHANGED <<vectors, next_id, raced, queryVars, call>>

\* ------------------------------------------------------------------------
\* Vector search and result cache
\* ------------------------------------------------------------------------

\* The filter rag_query and rag_query_stream pass to VectorStore.search
\* (rag/services.py:113-116, 266).
SearchFilterMutNoActive(user_department) ==
    [department |-> user_department]

SearchFilterMutNoDepartment(user_department) ==
    [is_active |-> TRUE]

SearchFilter(user_department) ==
    [department |-> user_department, is_active |-> TRUE]

\* Pinecone metadata filter: equality on every field the filter names.
Matches(v, filter) == \A k \in DOMAIN filter : v[k] = filter[k]

\* What VectorStore.search keeps of a match (vector_store.py:153-163).
SearchHit(v) ==
    [document_id |-> v.document_id, title |-> v.title,
     department |-> v.department, chunk_index |-> v.chunk_index]

\* VectorStore.search: at most `limit` of the records that pass the filter;
\* which of them the similarity ranking and the score threshold keep is up
\* to the index.
VectorSearch(index, filter, limit) ==
    {S \in SUBSET {v \in index : Matches(v, filter)} : Cardinality(S) <= limit}

\* Python's seq[start:stop] with 0-based bounds: a negative bound counts
\* from the end, and both are clamped to the sequence.
PySlice(seq, start, stop) ==
    LET n == Len(seq)
        Clamp(b) == IF b < 0 THEN (IF b + n < 0 THEN 0 ELSE b + n)
                    ELSE IF b > n THEN n ELSE b
    IN  SubSeq(seq, Clamp(start) + 1, Clamp(stop))

\* All sequences over S of length at most n.
SeqsUpTo(S, n) == UNION {[1..k -> S] : k \in 0..n}

\* str.lower() on the characters tried.
Lower(text) == [i \in DOMAIN text |-> IF text[i] = "L" THEN "l" ELSE text[i]]

\* str.strip(): leading and trailing whitespace removed.
RECURSIVE LStrip(_)
LStrip(text) ==
    IF text /= <<>> /\ Head(text) = " " THEN LStrip(Tail(text)) ELSE text

RECURSIVE RStrip(_)
RStrip(text) ==
    IF text /= <<>> /\ text[Len(text)] = " "
    THEN RStrip(SubSeq(text, 1, Len(text) - 1))
    ELSE text

Strip(text) == RStrip(LStrip(text))

\* hashlib.md5(...).hexdigest(): a digest of fixed width, taken here as free
\* of collisions on the strings tried.
Md5(text) == <<"md5", text>>

\* CacheManager.get_key: f"rag:{department}:{hash_value}" with hash_value the
\* digest of f"{query.lower().strip()}:{department}".  The digest has a
\* fixed width, so the key string determines the department and the digest
\* and is written as the triple of its parts.
GetKeyMutNoDepartment(query_text, department) ==
    <<"rag", "", Md5(Strip(Lower(query_text)))>>

GetKey(query_text, department) ==
    LET combined == Strip(Lower(query_text)) \o <<":">> \o <<department>>
    IN  <<"rag", department, Md5(combined)>>

\* rag/services.py:140, negative answers
NegativeTtl == 1800

\* rag/services.py:188, positive answers
PositiveTtl == 3600

\* CacheManager.set: SETEX key ttl value.  committed_at_write is not
\* stored by Redis: it remembers, for the properties, which Documents were
\* committed when the entry was written.
CacheSet(store, key, value, ttl) ==
    (key :> [value |-> value, ttl |-> ttl,
             committed_at_write |-> {d.id : d \in documents}]) @@ store

\* _cache_response: the payload is the answer, the sources and the
\* confidence of the response; latency_ms and cached are left out.
CacheResponseMutWholeResponse(store, cache_key, response, ttl) ==
    CacheSet(store, cache_key, response, ttl)

CacheResponse(store, cache_key, response, ttl) ==
    CacheSet(store, cache_key,
             [answer |-> response.answer, sources |-> response.sources,
              confidence |-> response.confidence],
             ttl)

\* ------------------------------------------------------------------------
\* Chat history
\* ------------------------------------------------------------------------

\* cache.py:158, default limit of get_chat_history
HistoryLimit == 10

\* CacheManager.get_chat_history: LRANGE 0 -1, then messages[-limit:]
\* (cache.py:167-173).  The slice has no stop, so it runs to the end of the
\* list; its start is the negated limit, and -0 is 0.
GetChatHistory(store, session_id, limit) ==
    LET messages == store[session_id]
    IN  PySlice(messages, 0 - limit, Len(messages))

\* CacheManager.append_chat_message: RPUSH of {role, content}.
AppendChatMessage(store, session_id, role, content) ==
    [store EXCEPT ![session_id] = Append(@, [role |-> role, content |-> content])]

\* `if request.session_id:` guards every history call.
HistoryAfter(store, session_id, role, content) ==
    IF session_id /= None
    THEN AppendChatMessage(store, session_id, role, content)
    ELSE store

\* ------------------------------------------------------------------------
\* Semantic router
\* ------------------------------------------------------------------------

\* What the router's provider call may produce: an exception, an empty
\* text, a text that is not JSON, or a JSON object.
RouterOutputs ==
    {[kind |-> k, routed_to |-> "", confidence_score |-> 0] :
        k \in {"raises", "empty", "malformed"}}
    \cup {[kind |-> "json", routed_to |-> a, confidence_score |-> c] :
            a \in ProviderAgents, c \in ConfidenceScores}

\* The decision route_query falls back to.
Degraded(reasoning) ==
    [routed_to |-> "unknown", confidence_score |-> 0, reasoning |-> reasoning]

\* SemanticRouter.route_query: the three fallbacks, else RouterResponse
\* built from the parsed object; pydantic rejects a routed_to outside the
\* enum (caught by `except Exception`) and accepts any float as
\* confidence_score.
RouteQuery(output) ==
    IF output.kind = "raises" THEN Degraded("str(e)")
    ELSE IF output.kind = "empty" THEN Degraded("Empty LLM response")
    ELSE IF output.kind = "malformed" THEN Degraded("JSON parse error")
    ELSE IF output.routed_to \notin RoutedAgent THEN Degraded("str(e)")
    ELSE [routed_to |-> output.routed_to,
          confidence_score |-> output.confidence_score,
          reasoning |-> "provider"]

\* ------------------------------------------------------------------------
\* LLM generation
\* ------------------------------------------------------------------------

\* What the provider's stream may do: yield the fragments, then end or
\* raise (a call that raises at once yields no fragment).
ProviderStreams ==
    {[fragments |-> f, raises |-> r] :
        f \in SeqsUpTo(FragmentTexts, MaxFragments), r \in BOOLEAN}

\* llm.py:166
GenerationErrorText == <<"I encountered an error generating the answer.">>

\* The fragments with text, `if chunk.text` (llm.py:160-162).
Yielded(fragments) == SelectSeq(fragments, LAMBDA f : f /= <<>>)

\* generate_answer_stream (llm.py:149-166): what it yields and whether it
\* raises to its caller.  The provider's exception is caught and answered
\* with one more fragment, the generic error sentence.  The docs are not
\* empty where the orchestrators call it.
GenerateAnswerStreamMutPropagates(stream) ==
    [yielded |-> Yielded(stream.fragments), raised |-> stream.raises]

GenerateAnswerStream(stream) ==
    [yielded |-> Yielded(stream.fragments)
                    \o (IF stream.raises THEN <<GenerationErrorText>> ELSE <<>>),
     raised |-> FALSE]

\* "".join(answer_parts), and full_answer += chunk.
RECURSIVE Join(_)
Join(parts) == IF parts = <<>> THEN <<>> ELSE Head(parts) \o Join(Tail(parts))

\* ------------------------------------------------------------------------
\* rag_query and rag_query_stream
\* ------------------------------------------------------------------------

\* rag/services.py:73-77, 242-246
ComingSoon(decision) ==
    << <<"This query requires the agent, coming soon",
         decision.routed_to, decision.confidence_score>> >>

\* rag/services.py:130-134
NoInfoBlocking ==
    <<"I don't have enough information to answer this question accurately. This might be because: ...">>

\* rag/services.py:287
NoInfoStream ==
    <<"I don't have enough information to answer this question accurately.">>

\* One server-sent event.
Event(name, data) == [event |-> name, data |-> data]

MessageEvents(parts) == [i \in DOMAIN parts |-> Event("message", parts[i])]

\* The QueryLog row _log_query adds and commits.
LogEntryMutDefaultAgent(q, result_count, latency_ms, routed_to) ==
    [query |-> query[q].text, department |-> query[q].department,
     result_count |-> result_count, latency_ms |-> latency_ms,
     cached |-> FALSE, confidence |-> "high", routed_to |-> "rag"]

LogEntry(q, result_count, latency_ms, routed_to) ==
    [query |-> query[q].text, department |-> query[q].department,
     result_count |-> result_count, latency_ms |-> latency_ms,
     cached |-> FALSE, confidence |-> "high", routed_to |-> routed_to]

\* _log_query (rag/services.py:362-378): session.add and session.commit; an
\* exception of either is caught, logged and answered with
\* session.rollback(), which discards the row, so the call returns either
\* way.  The session holds no other pending row.
LogQueryMutPropagates(rows, entry, log_ok) ==
    [rows |-> IF log_ok THEN Append(rows, entry) ELSE rows, raised |-> ~log_ok]

LogQuery(rows, entry, log_ok) ==
    [rows |-> IF log_ok THEN Append(rows, entry) ELSE rows, raised |-> FALSE]

\* QueryResponse
Response(answer, sources, confidence, latency_ms, cached) ==
    [answer |-> answer, sources |-> sources, confidence |-> confidence,
     latency_ms |-> latency_ms, cached |-> cached]

\* The response handed to the caller is kept in the request's record.
Respond(rec, response) ==
    [rec EXCEPT !.answer = response.answer, !.sources = response.sources,
                !.confidence = response.confidence,
                !.latency_ms = response.latency_ms,
                !.cached = response.cached,
                !.pc = "done"]

Ended(q) == query[q].pc \in {"idle", "done", "failed", "cancelled"}

\* A request arrives: with a session id, the history is read and the user
\* turn appended (rag/services.py:61-65, 230-234).
QueryStart(q, variant, user_department, text, max_results, session_id) ==
    /\ Ended(q)
    /\ requests < MaxQueries
    /\ requests' = requests + 1
    /\ query' = [query EXCEPT ![q] =
          [IdleQuery EXCEPT
              !.variant = variant, !.department = user_department,
              !.text = text, !.max_results = max_results,
              !.session_id = session_id,
              !.chat_history =
                  IF session_id /= None
                  THEN GetChatHistory(history, session_id, HistoryLimit)
                  ELSE <<>>,
              !.calls =
                  IF session_id /= None
                  THEN <<"get_chat_history", "append_chat_message">>
                  ELSE <<>>,
              !.pc = "route"]]
    /\ history' = HistoryAfter(history, session_id, "user", text)
    /\ UNCHANGED <<ingestVars, vectors, cache, query_log, call>>

\* The routing decision (rag/services.py:67-94, 236-260).  Any agent but
\* "rag" ends the request here: the fixed message is the answer, it is
\* appended to the history and a QueryLog row is written; the streaming
\* variant sends it between an empty sources event and the end event.  No
\* call site of _log_query catches what it would raise.
QueryRoute(q, output, latency_ms, log_ok) ==
    /\ query[q].pc = "route"
    /\ LET decision == RouteQuery(output)
           msg == ComingSoon(decision)
           logged == LogQuery(query_log,
                              LogEntry(q, 0, latency_ms, decision.routed_to), log_ok)
           routed == [query[q] EXCEPT
                         !.routed_to = decision.routed_to,
                         !.confidence_score = decision.confidence_score,
                         !.calls = @ \o <<"route_query">>]
           called == [routed EXCEPT
                         !.calls = @ \o
                            (IF query[q].session_id /= None
                             THEN <<"append_chat_message">> ELSE <<>>)
                            \o <<"log_query">>,
                         !.log_failed = ~log_ok]
       IN  IF decision.routed_to /= "rag"
           THEN /\ query' = [query EXCEPT ![q] =
                     IF query[q].variant = "blocking"
                     THEN IF logged.raised
                          THEN [called EXCEPT !.pc = "failed"]
                          ELSE Respond(called,
                                       Response(msg, {}, "high", latency_ms, FALSE))
                     ELSE [called EXCEPT
                             !.answer = msg,
                             !.events = <<Event("sources", {}), Event("message", msg)>>
                                        \o (IF logged.raised THEN <<>>
                                            ELSE <<Event("end", <<>>)>>),
                             !.pc = IF logged.raised THEN "failed" ELSE "done"]]
                /\ history' = HistoryAfter(history, query[q].session_id, "assistant", msg)
                /\ query_log' = logged.rows
           ELSE /\ query' = [query EXCEPT ![q] =
                     [routed EXCEPT !.pc = IF query[q].variant = "blocking"
                                           THEN "cache_check" ELSE "retrieval"]]
                /\ UNCHANGED <<history, query_log>>
    /\ UNCHANGED <<ingestVars, vectors, cache, requests, call>>

\* rag_query, cache lookup (rag/services.py:96-107): a hit is returned at
\* once with the latency of this request and cached = True.
QueryCacheCheck(q, latency_ms) ==
    /\ query[q].pc = "cache_check"
    /\ LET cache_key == GetKey(query[q].text, query[q].department)
           looked == [query[q] EXCEPT !.calls = @ \o <<"cache_get">>]
       IN  IF cache_key \in DOMAIN cache
           THEN LET cached_result == cache[cache_key].value
                IN  query' = [query EXCEPT ![q] =
                       Respond(looked,
                               [k \in DOMAIN cached_result \cup {"latency_ms", "cached"} |->
                                   IF k = "latency_ms" THEN latency_ms
                                   ELSE IF k = "cached" THEN TRUE
                                   ELSE cached_result[k]])]
           ELSE query' = [query EXCEPT ![q] = [looked EXCEPT !.pc = "retrieval"]]
    /\ UNCHANGED <<ingestVars, vectors, cache, history, query_log, requests, call>>

\* vector_store.search with the department and active filter
\* (rag/services.py:109-119, 262-269).  The streaming variant sends the
\* sources event as soon as the search returns (rag/services.py:271-284).
QuerySearch(q) ==
    /\ query[q].pc = "retrieval"
    /\ \E found \in VectorSearch(vectors, SearchFilter(query[q].department),
                                 query[q].max_results) :
          LET docs == {SearchHit(v) : v \in found}
          IN  query' = [query EXCEPT
                 ![q].search_filter = SearchFilter(query[q].department),
                 ![q].docs = docs,
                 ![q].max_results = 0,
                 ![q].calls = @ \o <<"search">>,
                 ![q].sources = IF query[q].variant = "stream" THEN docs ELSE @,
                 ![q].events = IF query[q].variant = "stream"
                               THEN <<Event("sources", docs)>> ELSE @,
                 ![q].pc = "respond"]
    /\ UNCHANGED <<ingestVars, vectors, cache, history, query_log, requests, call>>

\* vector_store.search raises (rag/services.py:110, 264): neither
\* orchestrator has a handler around the call, and the timer's context
\* manager only records the elapsed time (pipeline_timer.py:51-59), so the
\* exception leaves the orchestrator.
SearchRaisesMutNoResults(rec) ==
    [rec EXCEPT !.search_raised = TRUE, !.docs = {}, !.pc = "respond"]

SearchRaises(rec) ==
    [rec EXCEPT !.search_raised = TRUE, !.pc = "failed"]

QuerySearchFail(q) ==
    /\ query[q].pc = "retrieval"
    /\ query' = [query EXCEPT ![q] =
          SearchRaises([query[q] EXCEPT
              !.search_filter = SearchFilter(query[q].department),
              !.max_results = 0,
              !.calls = @ \o <<"search">>])]
    /\ UNCHANGED <<ingestVars, vectors, cache, history, query_log, requests, call>>

\* rag_query once retrieval has returned (rag/services.py:121-203): the
\* low-confidence answer, cached for NegativeTtl, when nothing was
\* retrieved; else generation, the history turn, the cache write for
\* PositiveTtl and the QueryLog row.
RespondBlocking(q, stream, latency_ms, log_ok) ==
    LET cache_key == GetKey(query[q].text, query[q].department)
        gen == GenerateAnswerStream(stream)
        answer == Join(gen.yielded)
        turn == IF query[q].session_id /= None
                THEN <<"append_chat_message">> ELSE <<>>
    IN  IF query[q].docs = {}
        THEN LET response == Response(NoInfoBlocking, {}, "low", latency_ms, FALSE)
             IN  /\ query' = [query EXCEPT ![q] =
                       [Respond(query[q], response)
                          EXCEPT !.calls = @ \o <<"cache_set">> \o turn]]
                 /\ cache' = CacheResponse(cache, cache_key, response, NegativeTtl)
                 /\ history' = HistoryAfter(history, query[q].session_id,
                                            "assistant", response.answer)
                 /\ UNCHANGED query_log
        ELSE IF gen.raised
        THEN /\ query' = [query EXCEPT
                   ![q].calls = @ \o <<"generate">>,
                   ![q].gen_failed = stream.raises,
                   ![q].partial = Join(Yielded(stream.fragments)),
                   ![q].pc = "failed"]
             /\ UNCHANGED <<cache, history, query_log>>
        ELSE LET response == Response(answer, query[q].docs, "high", latency_ms, FALSE)
                 logged == LogQuery(query_log,
                                    LogEntry(q, Cardinality(query[q].docs),
                                             latency_ms, "rag"),
                                    log_ok)
                 called == [query[q] EXCEPT
                               !.calls = @ \o <<"generate">> \o turn
                                           \o <<"cache_set", "log_query">>,
                               !.gen_failed = stream.raises,
                               !.partial = Join(Yielded(stream.fragments)),
                               !.log_failed = ~log_ok]
             IN  /\ query' = [query EXCEPT ![q] =
                       IF logged.raised
                       THEN [called EXCEPT !.pc = "failed"]
                       ELSE Respond(called, response)]
                 /\ history' = HistoryAfter(history, query[q].session_id,
                                            "assistant", answer)
                 /\ cache' = CacheResponse(cache, cache_key, response, PositiveTtl)
                 /\ query_log' = logged.rows

\* The events of rag_query_stream from the generation loop on
\* (rag/services.py:296-327): the message events, the error event of the
\* except branch, and the end event of the finally block.
StreamTailMutEndAfterText(gen) ==
    MessageEvents(gen.yielded)
    \o (IF gen.raised THEN <<Event("error", <<"Stream generation failed">>)>> ELSE <<>>)
    \o (IF Join(gen.yielded) /= <<>> THEN <<Event("end", <<>>)>> ELSE <<>>)

StreamTail(gen) ==
    MessageEvents(gen.yielded)
    \o (IF gen.raised THEN <<Event("error", <<"Stream generation failed">>)>> ELSE <<>>)
    \o <<Event("end", <<>>)>>

\* rag_query_stream once the sources event is out (rag/services.py:286-327):
\* the short answer when nothing was retrieved; else one message event per
\* fragment, an error event if the generator raises, and in the finally
\* block the history turn (if any text was produced), the QueryLog row and
\* the end event.  Nothing is written to the result cache.
RespondStream(q, stream, latency_ms, log_ok) ==
    LET gen == GenerateAnswerStream(stream)
        full_answer == Join(gen.yielded)
        logged == LogQuery(query_log,
                           LogEntry(q, Cardinality(query[q].docs), latency_ms, "rag"),
                           log_ok)
    IN  IF query[q].docs = {}
        THEN /\ query' = [query EXCEPT
                   ![q].answer = NoInfoStream,
                   ![q].events = @ \o <<Event("message", NoInfoStream),
                                        Event("end", <<>>)>>,
                   ![q].calls = @ \o (IF query[q].session_id /= None
                                      THEN <<"append_chat_message">> ELSE <<>>),
                   ![q].pc = "done"]
             /\ history' = HistoryAfter(history, query[q].session_id,
                                        "assistant", NoInfoStream)
             /\ UNCHANGED <<cache, query_log>>
        ELSE /\ query' = [query EXCEPT
                   ![q].answer = full_answer,
                   ![q].events = @ \o (IF logged.raised
                                        THEN SubSeq(StreamTail(gen), 1,
                                                    Len(StreamTail(gen)) - 1)
                                        ELSE StreamTail(gen)),
                   ![q].calls = @ \o <<"generate">>
                                  \o (IF query[q].session_id /= None /\ full_answer /= <<>>
                                      THEN <<"append_chat_message">> ELSE <<>>)
                                  \o <<"log_query">>,
                   ![q].gen_failed = stream.raises,
                   ![q].partial = Join(Yielded(stream.fragments)),
                   ![q].log_failed = ~log_ok,
                   ![q].pc = IF logged.raised THEN "failed" ELSE "done"]
             /\ history' = IF full_answer /= <<>>
                           THEN HistoryAfter(history, query[q].session_id,
                                             "assistant", full_answer)
                           ELSE history
             /\ query_log' = logged.rows
             /\ UNCHANGED cache

\* How the consumer of rag_query_stream may stop it while text is being
\* streamed: the task that iterates the generator is cancelled while the
\* generator awaits the provider's next fragment (CancelledError is raised
\* at that await), or the consumer stops iterating and the generator is
\* closed where it is suspended, at the yield of a message event
\* (GeneratorExit is raised at that yield).
CancelModes == {"task_cancelled", "generator_closed"}

\* What the finally block hands to the consumer (rag/services.py:312-327).
\* Neither CancelledError nor GeneratorExit is an Exception, so neither
\* generate_answer_stream nor the except clause of rag_query_stream
\* catches it, and the finally block runs to its `yield "event: end"`.
\* During a CancelledError the yield hands the end event to the consumer;
\* during a GeneratorExit it raises RuntimeError and hands over nothing.
EventsAfterCancel(mode) ==
    IF mode = "task_cancelled" THEN <<Event("end", <<>>)>> ELSE <<>>

\* rag_query_stream stopped after `consumed` fragments of the provider's
\* stream (rag/services.py:296-327).  The finally block appends the text
\* streamed so far to the session, writes the QueryLog row and reaches its
\* yield; no further fragment is asked of the provider.
QueryCancel(q, stream, consumed, mode, latency_ms) ==
    /\ query[q].pc = "respond"
    /\ query[q].variant = "stream"
    /\ query[q].docs /= {}
    /\ consumed \in 0..Len(stream.fragments)
    /\ mode = "generator_closed" =>
          consumed >= 1 /\ stream.fragments[consumed] /= <<>>
    /\ LET received == Yielded(SubSeq(stream.fragments, 1, consumed))
           full_answer == Join(received)
           sent == query[q].events \o MessageEvents(received)
           logged == LogQuery(query_log,
                              LogEntry(q, Cardinality(query[q].docs), latency_ms, "rag"),
                              TRUE)
       IN  /\ query' = [query EXCEPT
                 ![q].answer = full_answer,
                 ![q].events = sent \o EventsAfterCancel(mode),
                 ![q].calls = @ \o <<"generate">>
                                \o (IF query[q].session_id /= None /\ full_answer /= <<>>
                                    THEN <<"append_chat_message">> ELSE <<>>)
                                \o <<"log_query">>,
                 ![q].cancelled = TRUE,
                 ![q].consumed_at_cancel = consumed,
                 ![q].consumed = consumed,
                 ![q].events_at_cancel = Len(sent),
                 ![q].pc = "cancelled"]
           /\ history' = IF full_answer /= <<>>
                         THEN HistoryAfter(history, query[q].session_id,
                                           "assistant", full_answer)
                         ELSE history
           /\ query_log' = logged.rows
    /\ UNCHANGED <<ingestVars, vectors, cache, requests, call>>

QueryRespond(q, stream, latency_ms, log_ok) ==
    /\ query[q].pc = "respond"
    /\ IF query[q].variant = "blocking"
       THEN RespondBlocking(q, stream, latency_ms, log_ok)
       ELSE RespondStream(q, stream, latency_ms, log_ok)
    /\ UNCHANGED <<ingestVars, vectors, requests, call>>

\* A cache entry reaches its TTL and Redis drops it.
CacheExpire(key) ==
    /\ key \in DOMAIN cache
    /\ cache' = [k \in DOMAIN cache \ {key} |-> cache[k]]
    /\ UNCHANGED <<ingestVars, vectors, query, history, query_log, requests, call>>

\* ------------------------------------------------------------------------
\* _chunk_text
\* ------------------------------------------------------------------------

\* Index of the first whitespace character of text, Len(text) + 1 if none.
WordEnd(text) ==
    CHOOSE n \in 1..(Len(text) + 1) :
        /\ n = Len(text) + 1 \/ text[n] = " "
        /\ \A m \in 1..(n - 1) : text[m] /= " "

\* str.split(): the maximal runs of non-whitespace characters, in order.
RECURSIVE Split(_)
Split(text) ==
    LET t == LStrip(text)
    IN  IF t = <<>> THEN <<>>
        ELSE <<SubSeq(t, 1, WordEnd(t) - 1)>>
             \o Split(SubSeq(t, WordEnd(t), Len(t)))

\* " ".join(chunk_words)
RECURSIVE JoinWords(_)
JoinWords(ws) ==
    IF ws = <<>> THEN <<>>
    ELSE IF Len(ws) = 1 THEN Head(ws)
    ELSE Head(ws) \o <<" ">> \o JoinWords(Tail(ws))

\* i += (chunk_size - overlap), documents/services.py:279
AdvanceMutNoOverlap(i, chunk_size, overlap) == i + chunk_size

Advance(i, chunk_size, overlap) == i + (chunk_size - overlap)

\* _chunk_text up to the loop (documents/services.py:264-272): the text is
\* split into words; no words, the empty list is returned.  The arguments
\* are not examined.
ChunkTextCall(text, chunk_size, overlap) ==
    /\ call.op = "none"
    /\ call' = [op |-> "chunk_text", text |-> text, chunk_size |-> chunk_size,
                overlap |-> overlap, words |-> Split(text), i |-> 0,
                chunks |-> <<>>,
                pc |-> IF Split(text) = <<>> THEN "returned" ELSE "loop"]
    /\ UNCHANGED <<ingestVars, vectors, queryVars>>

\* One iteration of the loop (documents/services.py:273-283).
ChunkTextLoop ==
    /\ call.op = "chunk_text"
    /\ call.pc = "loop"
    /\ Len(call.chunks) < MaxIterations
    /\ LET chunk_words == PySlice(call.words, call.i, call.i + call.chunk_size)
           i == Advance(call.i, call.chunk_size, call.overlap)
       IN  call' = [call EXCEPT
              !.chunks = Append(@, JoinWords(chunk_words)),
              !.i = i,
              !.pc = IF i >= Len(call.words) THEN "returned" ELSE "loop"]
    /\ UNCHANGED <<ingestVars, vectors, queryVars>>

\* append_chat_message and get_chat_history called on their own; the call
\* record keeps the list as it was before the call and what the call gave.
AppendChatMessageCall(session_id, role, content) ==
    /\ Len(history[session_id]) < MaxHistoryLen
    /\ history' = AppendChatMessage(history, session_id, role, content)
    /\ call' = [op |-> "append_chat_message", session_id |-> session_id,
                role |-> role, content |-> content,
                before |-> history[session_id],
                after |-> history'[session_id]]
    /\ UNCHANGED <<ingestVars, vectors, cache, query, query_log, requests>>

GetChatHistoryCall(session_id, limit) ==
    /\ call' = [op |-> "get_chat_history", session_id |-> session_id,
                limit |-> limit,
                before |-> history[session_id],
                messages |-> GetChatHistory(history, session_id, limit)]
    /\ UNCHANGED <<ingestVars, vectors, cache, query, history, query_log, requests>>

\* The key of a session's list, f"chat:history:{session_id}"
\* (cache.py:164, 185), written like the result keys as its parts.
ChatKey(session_id) == <<"chat", "history", session_id>>

\* The keys Redis holds: result entries and chat-history lists live in one
\* keyspace.
RedisKeys == DOMAIN cache \cup {ChatKey(s) : s \in {x \in Sessions : history[x] /= <<>>}}

\* The SCAN pattern f"rag:{department}:*" (cache.py:133).
ScanPatternMutAnyDepartment(department) == <<"rag", "*", "*">>

ScanPattern(department) == <<"rag", department, "*">>

\* Glob match of a key against a pattern, part by part: "*" matches any
\* part.  The department names are free of ":" and of glob characters
\* (VALID_DEPARTMENTS, auth/models.py:14).
ScanMatch(key, pattern) ==
    \A i \in 1..3 : pattern[i] = "*" \/ key[i] = pattern[i]

\* CacheManager.invalidate_department (cache.py:131-152): SCAN until the
\* cursor is back at 0, DEL of every batch of keys, and the number of keys
\* handed to DEL as the result.
InvalidateDepartment(department) ==
    LET keys == {k \in RedisKeys : ScanMatch(k, ScanPattern(department))}
    IN  /\ call.op = "none"
        /\ cache' = [k \in DOMAIN cache \ keys |-> cache[k]]
        /\ history' = [s \in Sessions |->
                          IF ChatKey(s) \in keys THEN <<>> ELSE history[s]]
        /\ call' = [op |-> "invalidate_department", department |-> department,
                    deleted |-> Cardinality(keys)]
        /\ UNCHANGED <<ingestVars, vectors, query, query_log, requests>>

\* ------------------------------------------------------------------------
\* ingest_document_task
\* ------------------------------------------------------------------------

\* tasks.py:57
MaxRetries == 3

\* The worker that runs the dispatched task.
TaskWorker == "w1"

\* self.retry(exc=exc), tasks.py:113: Celery schedules another execution
\* while request.retries is below max_retries and re-raises exc otherwise.
ShouldRetryMutAlways(retries) == TRUE

ShouldRetry(retries) == retries < MaxRetries

\* The task is sent to the queue (routers.py, ingest_document_task.delay):
\* the message carries the arguments; committed_before remembers, for the
\* properties, the Documents committed when it was sent.
TaskDispatch(title, department, user_department, nwords) ==
    /\ call.op = "none" \/ (call.op = "ingest_document_task"
                               /\ call.state \in {"success", "failure"})
    /\ ~InFlight(TaskWorker)
    /\ call' = [op |-> "ingest_document_task", title |-> title,
                department |-> department, user_department |-> user_department,
                nwords |-> nwords, attempts |-> 0, state |-> "queued",
                committed_before |-> {d.id : d \in documents}]
    /\ UNCHANGED <<ingestVars, vectors, queryVars>>

\* A worker takes the message, first or retried (tasks.py:86-98).
TaskBegin ==
    /\ call.op = "ingest_document_task"
    /\ call.state \in {"queued", "retry"}
    /\ call' = [call EXCEPT !.attempts = @ + 1, !.state = "attempt"]
    /\ returned' = Returned("none", "", "")
    /\ UNCHANGED <<documents, chunks, vectors, next_id, ingest, raced, queryVars>>

\* _async_ingest (tasks.py:116-149): a fresh session, and ingest_document
\* with the arguments of the message.
TaskRun(provider_ok) ==
    /\ call.op = "ingest_document_task"
    /\ call.state = "attempt"
    /\ returned.result = "none"
    /\ IngestStart(TaskWorker, call.title, call.department, call.user_department,
                   call.nwords, provider_ok)

\* The attempt is over (tasks.py:99-113).  ingest_document may still raise
\* after its commit, in session.refresh (services.py:144); any exception
\* goes to self.retry.
TaskEnd(refresh_ok) ==
    /\ call.op = "ingest_document_task"
    /\ call.state = "attempt"
    /\ ~InFlight(TaskWorker)
    /\ returned.result /= "none"
    /\ call' = [call EXCEPT !.state =
                   IF returned.result = "ok" /\ refresh_ok THEN "success"
                   ELSE IF ShouldRetry(call.attempts - 1) THEN "retry"
                   ELSE "failure"]
    /\ UNCHANGED <<ingestVars, vectors, queryVars>>

\* get_key called on two (query, department) pairs.
GetKeyCall(query1, department1, query2, department2) ==
    /\ call.op = "none"
    /\ call' = [op |-> "get_key",
                query1 |-> query1, department1 |-> department1,
                key1 |-> GetKey(query1, department1),
                query2 |-> query2, department2 |-> department2,
                key2 |-> GetKey(query2, department2)]
    /\ UNCHANGED <<ingestVars, vectors, queryVars>>

\* ------------------------------------------------------------------------
\* Specifications
\* ------------------------------------------------------------------------

\* The steps of a call under way.  The metadata updates of
\* _deactivate_old_versions are not among them: the read before them raises.
IngestStep(p) ==
    \/ IngestUpsert(p)
    \/ IngestUpsertFail(p)
    \/ IngestSupersede(p)
    \/ IngestCommit(p)

IngestRequest(p) ==
    \E title \in Titles, department \in TargetDepartments,
       user_department \in UserDepartments, nwords \in ContentLengths,
       provider_ok \in BOOLEAN :
        IngestStart(p, title, department, user_department, nwords, provider_ok)

\* Ingestion tasks run concurrently.
Next ==
    \/ \E p \in Procs : IngestRequest(p)
    \/ \E p \in Procs : IngestStep(p)

Spec == Init /\ [][Next]_vars

\* The router's provider sends the query to the RAG agent.
RagOutput == [kind |-> "json", routed_to |-> "rag", confidence_score |-> 95]

\* The provider streams one fragment and ends.
PlainStream == [fragments |-> << <<"a">> >>, raises |-> FALSE]

\* The shortest of the latencies tried.
QuickLatency == CHOOSE l \in Latencies : \A m \in Latencies : l <= m

\* Ingestion calls run one after another, each to its end, on one worker.
SeqWorker == "w1"

NextSeq ==
    \/ IngestRequest(SeqWorker)
    \/ IngestStep(SeqWorker)

SpecSeq == Init /\ [][NextSeq]_vars

\* Ingestion calls run one after another while queries without a session,
\* routed to the RAG agent, arrive and cache entries expire at any time; the
\* QueryLog insert succeeds.
NextQuery ==
    \/ next_id <= MaxIndexedDocs /\ IngestRequest(SeqWorker)
    \/ IngestStep(SeqWorker)
    \/ \E q \in QProcs, variant \in Variants, user_department \in QueryDepartments,
          text \in QueryTexts, max_results \in ResultLimits :
            QueryStart(q, variant, user_department, text, max_results, None)
    \/ \E q \in QProcs : QueryRoute(q, RagOutput, QuickLatency, TRUE)
    \/ \E q \in QProcs : QueryCacheCheck(q, QuickLatency)
    \/ \E q \in QProcs : QuerySearch(q)
    \/ \E q \in QProcs : QuerySearchFail(q)
    \/ \E q \in QProcs : QueryRespond(q, PlainStream, QuickLatency, TRUE)
    \/ \E key \in DOMAIN cache : CacheExpire(key)

SpecQuery == Init /\ [][NextQuery]_vars

\* The stores after ingest_document("Leave Policy", "Sales", 700 words) by
\* a Sales uploader has committed.
LoadedDocuments ==
    {[id |-> 1, title |-> "Leave Policy", department |-> "Sales",
      version |-> 1, is_active |-> TRUE]}

LoadedChunks ==
    {[document_id |-> 1, chunk_index |-> i, vector_id |-> VectorId(1, i)] :
        i \in 0..(ChunkCount(700) - 1)}

LoadedVectors ==
    {[id |-> VectorId(1, i), document_id |-> 1, department |-> "Sales",
      chunk_index |-> i, title |-> "Leave Policy", version |-> 1,
      is_active |-> TRUE] : i \in 0..(ChunkCount(700) - 1)}

InitLoaded ==
    /\ documents = LoadedDocuments
    /\ chunks = LoadedChunks
    /\ vectors = LoadedVectors
    /\ next_id = 2
    /\ ingest = [p \in Procs |-> IdleIngest]
    /\ returned = DocumentResponse(1, ChunkCount(700))
    /\ raced = FALSE
    /\ cache = <<>>
    /\ query = [q \in QProcs \cup SessionProcs |-> IdleQuery]
    /\ history = [s \in Sessions |-> <<>>]
    /\ query_log = <<>>
    /\ requests = 0
    /\ call = [op |-> "none"]

\* The query pipeline over a loaded index: requests of both variants, with
\* and without a session, every router outcome and every provider stream;
\* the QueryLog insert succeeds.
NextPipeline ==
    \/ \E q \in QProcs, variant \in Variants, user_department \in QueryDepartments,
          text \in QueryTexts, max_results \in ResultLimits,
          session_id \in SessionIds :
            QueryStart(q, variant, user_department, text, max_results, session_id)
    \/ \E q \in QProcs, output \in RouterOutputs, latency_ms \in Latencies :
            QueryRoute(q, output, latency_ms, TRUE)
    \/ \E q \in QProcs, latency_ms \in Latencies : QueryCacheCheck(q, latency_ms)
    \/ \E q \in QProcs : QuerySearch(q)
    \/ \E q \in QProcs : QuerySearchFail(q)
    \/ \E q \in QProcs, stream \in ProviderStreams, latency_ms \in Latencies :
            QueryRespond(q, stream, latency_ms, TRUE)
    \/ \E key \in DOMAIN cache : CacheExpire(key)

SpecPipeline == InitLoaded /\ [][NextPipeline]_vars

\* The query pipeline over a loaded index when the insert or the commit of
\* the QueryLog row may fail.
NextLogging ==
    \/ \E q \in QProcs, variant \in Variants, user_department \in QueryDepartments,
          text \in QueryTexts, max_results \in ResultLimits,
          session_id \in SessionIds :
            QueryStart(q, variant, user_department, text, max_results, session_id)
    \/ \E q \in QProcs, output \in RouterOutputs, log_ok \in BOOLEAN :
            QueryRoute(q, output, QuickLatency, log_ok)
    \/ \E q \in QProcs : QueryCacheCheck(q, QuickLatency)
    \/ \E q \in QProcs : QuerySearch(q)
    \/ \E q \in QProcs : QuerySearchFail(q)
    \/ \E q \in QProcs, stream \in ProviderStreams, log_ok \in BOOLEAN :
            QueryRespond(q, stream, QuickLatency, log_ok)
    \/ \E key \in DOMAIN cache : CacheExpire(key)

SpecLogging == InitLoaded /\ [][NextLogging]_vars

\* get_key on its own, on every pair of query strings and departments.
KeyQueries == SeqsUpTo(Chars, MaxQueryLen)

NextKey ==
    \E query1 \in KeyQueries, query2 \in KeyQueries,
       department1 \in QueryDepartments, department2 \in QueryDepartments :
        GetKeyCall(query1, department1, query2, department2)

SpecKey == Init /\ [][NextKey]_vars

\* Blocking queries with and without a session fill the result cache and
\* the chat history, entries expire, and invalidate_department is called
\* once, for either department, at any time.
NextInvalidate ==
    \/ \E q \in QProcs, user_department \in QueryDepartments,
          text \in QueryTexts, max_results \in ResultLimits,
          session_id \in SessionIds :
            QueryStart(q, "blocking", user_department, text, max_results, session_id)
    \/ \E q \in QProcs : QueryRoute(q, RagOutput, QuickLatency, TRUE)
    \/ \E q \in QProcs : QueryCacheCheck(q, QuickLatency)
    \/ \E q \in QProcs : QuerySearch(q)
    \/ \E q \in QProcs : QueryRespond(q, PlainStream, QuickLatency, TRUE)
    \/ \E key \in DOMAIN cache : CacheExpire(key)
    \/ \E department \in QueryDepartments : InvalidateDepartment(department)

SpecInvalidate == InitLoaded /\ [][NextInvalidate]_vars

\* Streamed queries over a loaded index whose consumer may stop them while
\* the answer is being streamed.
NextCancel ==
    \/ \E q \in QProcs, user_department \in QueryDepartments,
          text \in QueryTexts, max_results \in ResultLimits,
          session_id \in SessionIds :
            QueryStart(q, "stream", user_department, text, max_results, session_id)
    \/ \E q \in QProcs : QueryRoute(q, RagOutput, QuickLatency, TRUE)
    \/ \E q \in QProcs : QuerySearch(q)
    \/ \E q \in QProcs, stream \in ProviderStreams :
            QueryRespond(q, stream, QuickLatency, TRUE)
    \/ \E q \in QProcs, stream \in ProviderStreams,
          consumed \in 0..MaxFragments, mode \in CancelModes :
            QueryCancel(q, stream, consumed, mode, QuickLatency)

SpecCancel == InitLoaded /\ [][NextCancel]_vars

\* Two streamed queries of one chat session, served by one event loop: each
\* await of the orchestrator lets the other request run.
NextSessions ==
    \/ \E q \in SessionProcs, user_department \in QueryDepartments,
          text \in QueryTexts, max_results \in ResultLimits, session_id \in Sessions :
            QueryStart(q, "stream", user_department, text, max_results, session_id)
    \/ \E q \in SessionProcs : QueryRoute(q, RagOutput, QuickLatency, TRUE)
    \/ \E q \in SessionProcs : QuerySearch(q)
    \/ \E q \in SessionProcs : QueryRespond(q, PlainStream, QuickLatency, TRUE)

SpecSessions == InitLoaded /\ [][NextSessions]_vars

\* Tasks are dispatched one after another to one worker; every attempt may
\* fail at any of its steps, after the commit included.
NextTask ==
    \/ \E title \in Titles, department \in TargetDepartments,
          user_department \in UserDepartments, nwords \in ContentLengths :
            TaskDispatch(title, department, user_department, nwords)
    \/ TaskBegin
    \/ \E provider_ok \in BOOLEAN : TaskRun(provider_ok)
    \/ IngestStep(TaskWorker)
    \/ \E refresh_ok \in BOOLEAN : TaskEnd(refresh_ok)

SpecTask == Init /\ [][NextTask]_vars

\* One chat session on its own: turns of either role are appended and the
\* history is read with every limit tried, the default among them.
Roles == {"user", "assistant"}

HistoryLimits == (0..MaxLimit) \cup {HistoryLimit}

NextHistory ==
    \/ \E session_id \in Sessions, role \in Roles, content \in QueryTexts :
            AppendChatMessageCall(session_id, role, content)
    \/ \E session_id \in Sessions, limit \in HistoryLimits :
            GetChatHistoryCall(session_id, limit)

SpecHistory == Init /\ [][NextHistory]_vars

\* _chunk_text on its own, on every text, chunk_size and overlap tried; the
\* loop is synchronous code and keeps running.
ChunkTexts == SeqsUpTo(TextChars, MaxTextLen)

NextChunk ==
    \/ \E text \in ChunkTexts, chunk_size \in 1..MaxChunkSize,
          overlap \in 0..MaxChunkSize :
            ChunkTextCall(text, chunk_size, overlap)
    \/ ChunkTextLoop

SpecChunk == Init /\ [][NextChunk]_vars /\ WF_vars(ChunkTextLoop)

\* ------------------------------------------------------------------------
\* Properties
\* ------------------------------------------------------------------------

DocIds == {d.id : d \in documents}

SamePair(a, b) == a.title = b.title /\ a.department = b.department

\* The index records a source or a retrieved doc was built from.
StoredFor(s) ==
    {v \in vectors : v.document_id = s.document_id /\ v.chunk_index = s.chunk_index}

\* C1: department isolation.  Whatever a query of department A retrieved or
\* returned as a source, from the index or from the cache, in the blocking
\* or the streaming variant, is stored in the index with department A.
DepartmentIsolation ==
    \A q \in QProcs :
        \A s \in query[q].docs \cup query[q].sources :
            /\ s.department = query[q].department
            /\ \A v \in StoredFor(s) : v.department = query[q].department

\* A cache hit that returned sources while the index holds an active vector
\* of another department.
C1_Witness ==
    \E q \in QProcs :
        /\ query[q].pc = "done"
        /\ query[q].cached
        /\ query[q].sources /= {}
        /\ \E v \in vectors : v.is_active /\ v.department /= query[q].department

\* C2: every vector search, in both variants, is made with exactly the
\* filter department = the caller's department and is_active = true; it
\* returns only records that, at the time of the search, are stored with
\* that department and is_active = true, and the response built on a cache
\* miss lists exactly what was retrieved.
SearchAlwaysFiltered ==
    [][\A q \in QProcs :
          /\ (query[q].pc = "retrieval" /\ query'[q].pc /= "retrieval") =>
                /\ DOMAIN query'[q].search_filter = {"department", "is_active"}
                /\ query'[q].search_filter.department = query[q].department
                /\ query'[q].search_filter.is_active
          /\ (query[q].pc = "retrieval" /\ query'[q].pc = "respond") =>
                \A d \in query'[q].docs :
                    \E v \in vectors :
                        /\ SearchHit(v) = d
                        /\ v.department = query[q].department
                        /\ v.is_active
          /\ (query[q].pc = "respond" /\ query'[q].pc = "done") =>
                (query'[q].sources = query[q].docs /\ ~query'[q].cached)
      ]_vars

\* A streamed search that returned something while the index also holds
\* records of another department.
C2_Witness ==
    \E q \in QProcs :
        /\ query[q].pc = "respond"
        /\ query[q].variant = "stream"
        /\ query[q].docs /= {}
        /\ query[q].search_filter = SearchFilter(query[q].department)
        /\ \E v \in vectors : v.department /= query[q].department

\* With ingestions run one after another, at most one Document of a
\* (title, department) pair is active, and the active one is the newest,
\* highest version.
SingleActiveVersion ==
    \A d1 \in documents :
        /\ \A d2 \in documents :
              (SamePair(d1, d2) /\ d1.is_active /\ d2.is_active) => d1.id = d2.id
        /\ d1.is_active <=>
              (d1.version = Max({d.version : d \in DocsOf(documents, d1.title, d1.department)}))

\* C3 as claimed: with ingestions run one after another, at most one
\* Document of a pair is active after each call, and a call whose vector
\* upserts all succeed is successful and leaves its own Document the
\* active one of the pair, every earlier version inactive (the same title
\* ingested twice leaves version 1 inactive and version 2 active).
NewVersionSupersedes ==
    /\ []SingleActiveVersion
    /\ [][\A p \in Procs :
            (InFlight(p) /\ ingest'[p].pc = "idle"
               /\ returned'.result /= "UpsertError") =>
                /\ returned'.result = "ok"
                /\ \E d \in documents' :
                      /\ d.id = ingest[p].doc_id
                      /\ d.is_active
                      /\ \A e \in documents' :
                            (SamePair(d, e) /\ e.id /= d.id) => ~e.is_active
         ]_vars

\* With ingestions run one after another, the versions of a pair are
\* 1, 2, ..., n without gap or repeat, in the order the Documents were
\* created, whatever attempts failed in between.
VersionsStrictlyIncreasing ==
    \A d1 \in documents :
        LET pair == DocsOf(documents, d1.title, d1.department)
        IN  /\ {d.version : d \in pair} = 1..Cardinality(pair)
            /\ \A d2 \in pair : d1.id < d2.id => d1.version < d2.version

NeverTwoVersionsVisible ==
    \A p \in Procs : \A q \in QProcs :
        InFlight(p) =>
            ~ \E new, old \in query[q].docs :
                  /\ new.document_id = ingest[p].doc_id
                  /\ old.document_id \in DocIds
                  /\ SamePair(new, old)

\* C6: two Documents of a pair share a version number, or are both active,
\* only after two calls for that pair both held the same version before
\* either committed.
Anomaly ==
    \E d1, d2 \in documents :
        /\ d1.id /= d2.id
        /\ SamePair(d1, d2)
        /\ (d1.version = d2.version \/ (d1.is_active /\ d2.is_active))

AnomalyOnlyByRace == Anomaly => raced

\* Both racers committed: same version number and both active.
C6_Witness ==
    /\ \A p \in Procs : ~InFlight(p)
    /\ \E d1, d2 \in documents :
          /\ d1.id /= d2.id
          /\ SamePair(d1, d2)
          /\ d1.version = d2.version
          /\ d1.is_active /\ d2.is_active

StoresUnchanged ==
    /\ documents' = documents
    /\ chunks' = chunks
    /\ vectors' = vectors
    /\ next_id' = next_id

\* C7: a call is rejected with InvalidDepartmentError exactly for a target
\* outside the valid set, with PermissionDeniedException exactly for a valid
\* target that is not the uploader's own unless the uploader is of IT; a
\* rejection leaves both stores as they were, and a call that goes on was
\* entitled to.
RejectedBeforeAnyWrite ==
    [][/\ (returned' /= returned /\ returned'.result = "InvalidDepartmentError") =>
              (returned'.department \notin VALID_DEPARTMENTS /\ StoresUnchanged)
       /\ (returned' /= returned /\ returned'.result = "PermissionDeniedException") =>
              /\ returned'.department \in VALID_DEPARTMENTS
              /\ returned'.user_department /= returned'.department
              /\ returned'.user_department /= "IT"
              /\ StoresUnchanged
       /\ \A p \in Procs :
              (~InFlight(p) /\ ingest'[p].pc /= "idle") =>
                  /\ ingest'[p].department \in VALID_DEPARTMENTS
                  /\ (ingest'[p].user_department = ingest'[p].department
                        \/ ingest'[p].user_department = "IT")
      ]_vars

\* A permission rejection while the stores hold data, and an IT upload to
\* another department under way.
C7_Witness ==
    /\ returned.result = "PermissionDeniedException"
    /\ documents /= {}
    /\ \E p \in Procs :
          /\ InFlight(p)
          /\ ingest[p].user_department = "IT"
          /\ ingest[p].department /= "IT"

UpsertFailureRollsBack ==
    [][\A p \in Procs :
          (ingest[p].pc = "upsert" /\ ingest[p].idx < ingest[p].nchunks
             /\ ingest'[p].pc = "idle") =>
              /\ returned'.result = "UpsertError"
              /\ documents' = documents
              /\ chunks' = chunks
              /\ ingest[p].doc_id \notin {d.id : d \in documents'}
              /\ \A c \in chunks' : c.document_id /= ingest[p].doc_id
              /\ GetNextVersion(documents', ingest[p].title, ingest[p].department)
                    = ingest[p].version
              /\ ingest[p].version > 1 =>
                    \E d \in documents' :
                        /\ SamePair(d, ingest[p])
                        /\ d.version = ingest[p].version - 1
                        /\ d.is_active
      ]_vars

\* An upsert failure of a second version that left a vector behind, the
\* first version still active.
C9_Witness ==
    /\ returned.result = "UpsertError"
    /\ \E d \in documents :
          /\ d.is_active
          /\ \E v \in vectors :
                /\ SamePair(v, d)
                /\ v.version = d.version + 1
                /\ v.document_id \notin DocIds

\* Vectors of a Document that was never committed and is no longer being
\* ingested.
Orphans ==
    {v \in vectors :
        /\ v.document_id \notin DocIds
        /\ \A p \in Procs : ingest[p].doc_id /= v.document_id}

\* C10 as claimed: orphaned vectors are never marked active and never
\* returned by a query.
OrphansNeverActiveNorReturned ==
    /\ \A v \in Orphans : ~v.is_active
    /\ \A q \in QProcs :
          \A s \in query[q].docs \cup query[q].sources :
              \A v \in Orphans : SearchHit(v) /= s

\* C11: the relational writes of an ingestion become visible in one step.
\* Every step that changes the documents or the chunks table is the commit
\* of one call and publishes together its Document, all of its chunk rows
\* and the deactivation of the older versions of its pair, and nothing
\* else; so a call in flight has published nothing, and an inactive
\* Document is never seen without another Document of its pair.
RelationalCommitAtomic ==
    [][/\ (documents' /= documents \/ chunks' /= chunks) =>
              \E p \in Procs :
                  /\ ingest[p].pc = "commit" /\ ingest'[p].pc = "idle"
                  /\ PendingDoc(p) \in documents' \ documents
                  /\ chunks' \ chunks = PendingChunks(p)
                  /\ chunks \subseteq chunks'
                  /\ Cardinality(PendingChunks(p)) = ingest[p].nchunks
                  /\ \A d \in documents :
                        \/ d \in documents'
                        \/ /\ d.is_active /\ SamePair(d, PendingDoc(p))
                           /\ [d EXCEPT !.is_active = FALSE] \in documents'
                  /\ documents' \subseteq
                        documents \cup {PendingDoc(p)}
                          \cup {[d EXCEPT !.is_active = FALSE] : d \in documents}
       /\ \A p \in Procs :
              ingest'[p].pc /= "idle" =>
                  /\ ingest'[p].doc_id \notin {d.id : d \in documents'}
                  /\ \A c \in chunks' : c.document_id /= ingest'[p].doc_id
       /\ \A d \in documents' :
              ~d.is_active => \E d2 \in documents' : SamePair(d, d2) /\ d2.id /= d.id
      ]_vars

\* A Document has just been published together with its chunk rows while
\* another call, whose vectors are already in the index, has published
\* nothing.
C11_Witness ==
    /\ returned.result = "ok"
    /\ Cardinality({c \in chunks : c.document_id = returned.id}) = ChunkCount(700)
    /\ \E p \in Procs :
          /\ ingest[p].pc = "upsert"
          /\ ingest[p].idx = ingest[p].nchunks
          /\ ingest[p].nchunks > 0
          /\ ingest[p].doc_id \notin DocIds

\* C12: get_key gives one key to two queries that are equal once lower-cased
\* and stripped, in one department, and different keys to one query text in
\* two departments.
CacheKeyPure ==
    call.op = "get_key" =>
        /\ (Strip(Lower(call.query1)) = Strip(Lower(call.query2))
              /\ call.department1 = call.department2) => call.key1 = call.key2
        /\ (call.query1 = call.query2 /\ call.department1 /= call.department2)
              => call.key1 /= call.key2

\* Two different query strings with the same normal form got the same key.
C12_Witness ==
    /\ call.op = "get_key"
    /\ call.query1 /= call.query2
    /\ Len(call.query1) = MaxQueryLen
    /\ call.department1 = call.department2
    /\ call.key1 = call.key2

Calls(q, name) == {i \in DOMAIN query[q].calls : query[q].calls[i] = name}

\* C13: a cache entry holds the answer, the confidence and the sources and
\* nothing else; a cache hit returns exactly these with cached = true and
\* this request's latency, and the request makes no vector search and no
\* LLM generation and writes nothing.
CacheHitReturnsStored ==
    /\ [](\A k \in DOMAIN cache :
            DOMAIN cache[k].value = {"answer", "sources", "confidence"})
    /\ [][\A q \in QProcs :
            (query[q].pc = "cache_check" /\ query'[q].pc = "done") =>
                LET cache_key == GetKey(query[q].text, query[q].department)
                IN  /\ cache_key \in DOMAIN cache
                    /\ query'[q].answer = cache[cache_key].value.answer
                    /\ query'[q].confidence = cache[cache_key].value.confidence
                    /\ query'[q].sources = cache[cache_key].value.sources
                    /\ query'[q].cached
                    /\ query'[q].latency_ms \in Latencies
                    /\ \A i \in DOMAIN query'[q].calls :
                          query'[q].calls[i] \notin {"search", "generate", "cache_set"}
                    /\ UNCHANGED <<cache, vectors, history, query_log>>
         ]_vars

\* A cache hit that returned a generated answer with its sources, with a
\* latency other than the one the entry's writer had.
C13_Witness ==
    \E q \in QProcs :
        /\ query[q].pc = "done"
        /\ query[q].cached
        /\ query[q].sources /= {}
        /\ query[q].answer /= <<>>
        /\ query[q].confidence = "high"
        /\ \E i \in DOMAIN query_log : query_log[i].latency_ms /= query[q].latency_ms

\* C14 as claimed: when retrieval returns nothing, the response is the
\* low-confidence one with no sources, no generation is invoked, and the
\* response is cached under the caller's key with a TTL shorter than the
\* positive one.
ZeroResultsCachedShorter ==
    [][\A q \in QProcs :
          (query[q].pc = "respond" /\ query[q].docs = {} /\ query'[q].pc = "done") =>
              LET cache_key == GetKey(query[q].text, query[q].department)
              IN  /\ query'[q].sources = {}
                  /\ \A i \in DOMAIN query'[q].calls : query'[q].calls[i] /= "generate"
                  /\ cache_key \in DOMAIN cache'
                  /\ cache'[cache_key].value.confidence = "low"
                  /\ cache'[cache_key].value.sources = {}
                  /\ cache'[cache_key].ttl < PositiveTtl
      ]_vars

\* C15 as claimed: every decision route_query returns names an agent of the
\* closed set and has a confidence score between 0.0 and 1.0.
RouterDecisionWellFormed ==
    \A q \in QProcs :
        query[q].routed_to /= "" =>
            /\ query[q].routed_to \in RoutedAgent
            /\ query[q].confidence_score >= 0
            /\ query[q].confidence_score <= 100

\* C16: a request the router sends anywhere but to the RAG agent ends at
\* the routing step: no cache lookup, search, generation or cache write;
\* the fixed message is the answer (the one message event of the stream),
\* one QueryLog row naming the routed agent is added, and with a session
\* the message is appended as the assistant turn.  Only requests routed to
\* "rag" go on to the cache and the index.
NonRagShortCircuits ==
    [][\A q \in QProcs :
          /\ (query[q].pc = "route" /\ query'[q].pc /= "route"
                /\ query'[q].routed_to /= "rag") =>
                LET msg == ComingSoon([routed_to |-> query'[q].routed_to,
                                       confidence_score |-> query'[q].confidence_score])
                    s == query[q].session_id
                IN  /\ query'[q].pc = "done"
                    /\ \A i \in DOMAIN query'[q].calls :
                          query'[q].calls[i] \notin
                             {"cache_get", "search", "generate", "cache_set"}
                    /\ UNCHANGED <<cache, vectors>>
                    /\ query'[q].answer = msg
                    /\ query'[q].sources = {}
                    /\ query[q].variant = "stream" =>
                          query'[q].events = <<Event("sources", {}), Event("message", msg),
                                               Event("end", <<>>)>>
                    /\ Len(query_log') = Len(query_log) + 1
                    /\ SubSeq(query_log', 1, Len(query_log)) = query_log
                    /\ query_log'[Len(query_log')].routed_to = query'[q].routed_to
                    /\ query_log'[Len(query_log')].query = query[q].text
                    /\ IF s /= None
                       THEN history' = [history EXCEPT ![s] =
                                Append(@, [role |-> "assistant", content |-> msg])]
                       ELSE history' = history
          /\ (query[q].pc = "route" /\ query'[q].pc \in {"cache_check", "retrieval"}) =>
                query'[q].routed_to = "rag"
          /\ (query'[q].pc \in {"cache_check", "retrieval", "respond"}) =>
                query'[q].routed_to = "rag"
      ]_vars

\* A streamed request with a session that the degraded router sent to
\* "unknown", after an earlier request has filled the cache.
C16_Witness ==
    \E q \in QProcs :
        /\ query[q].pc = "done"
        /\ query[q].variant = "stream"
        /\ query[q].routed_to = "unknown"
        /\ query[q].session_id /= None
        /\ Len(history[query[q].session_id]) = 2
        /\ DOMAIN cache /= {}

\* C17 as claimed: in both variants a vector search is made only after a
\* lookup of the request's cache key.
CacheCheckPrecedesRetrieval ==
    \A q \in QProcs :
        \A j \in Calls(q, "search") : \E i \in Calls(q, "cache_get") : i < j

EventsNamed(q, name) == {i \in DOMAIN query[q].events : query[q].events[i].event = name}

\* C18: in the events of a streamed request there is never more than one
\* sources event or one end event, every message event comes after the
\* sources event and nothing comes after the end event; and a request that
\* has run to its end has sent exactly one sources event, first, and
\* exactly one end event, last.
StreamEventOrder ==
    \A q \in QProcs :
        query[q].variant = "stream" =>
            /\ Cardinality(EventsNamed(q, "sources")) <= 1
            /\ Cardinality(EventsNamed(q, "end")) <= 1
            /\ \A i \in EventsNamed(q, "message") \cup EventsNamed(q, "error") :
                  \E j \in EventsNamed(q, "sources") : j < i
            /\ \A i \in EventsNamed(q, "end") : i = Len(query[q].events)
            /\ query[q].pc = "done" =>
                  /\ EventsNamed(q, "sources") = {1}
                  /\ EventsNamed(q, "end") = {Len(query[q].events)}
            /\ query[q].pc /= "done" => EventsNamed(q, "end") = {}

\* A stream whose provider yielded nothing, and one whose provider raised
\* after a fragment: both ended.
C18_Witness ==
    \E q \in QProcs :
        /\ query[q].pc = "done"
        /\ query[q].variant = "stream"
        /\ query[q].docs /= {}
        /\ \/ Len(query[q].events) = 2
           \/ query[q].gen_failed /\ query[q].partial /= <<>>

\* C19 as claimed: when the provider's stream raises, an error event
\* follows the message events already sent and the end event follows it.
ErrorEventOnGenerationFailure ==
    \A q \in QProcs :
        (query[q].variant = "stream" /\ query[q].pc = "done" /\ query[q].gen_failed) =>
            \E i \in EventsNamed(q, "error") :
                /\ \A j \in EventsNamed(q, "message") : j < i
                /\ \E k \in EventsNamed(q, "end") : i < k

\* C20 as claimed: when the provider's stream raises after some text, the
\* assistant turn appended to the history is exactly that text, and the
\* QueryLog row is still written.
PartialAnswerSavedOnFailure ==
    [][\A q \in QProcs :
          (query[q].variant = "stream" /\ query[q].pc = "respond"
             /\ query'[q].pc = "done" /\ query'[q].gen_failed
             /\ query'[q].partial /= <<>>) =>
              /\ Len(query_log') = Len(query_log) + 1
              /\ query[q].session_id /= None =>
                    history' = [history EXCEPT ![query[q].session_id] =
                        Append(@, [role |-> "assistant", content |-> query'[q].partial])]
      ]_vars

\* C21 as claimed: a streamed request routed to the RAG agent ends with the
\* answer text rag_query returns on the same retrieved documents and the
\* same provider stream (the concatenation of its message events), and
\* leaves under the caller's key the payload rag_query caches, with the
\* same TTL, on the positive path and on the zero-result path.
StreamMatchesBlocking ==
    [][\A q \in QProcs :
          (query[q].variant = "stream" /\ query[q].pc = "respond"
             /\ query'[q].pc = "done") =>
              LET cache_key == GetKey(query[q].text, query[q].department)
                  messages == SelectSeq(query'[q].events,
                                        LAMBDA e : e.event = "message")
                  streamed == Join([i \in DOMAIN messages |-> messages[i].data])
                  blocking == IF query[q].docs = {}
                              THEN NoInfoBlocking
                              ELSE query'[q].partial
                                   \o (IF query'[q].gen_failed
                                       THEN GenerationErrorText ELSE <<>>)
                  payload == [answer |-> blocking, sources |-> query[q].docs,
                              confidence |-> IF query[q].docs = {}
                                             THEN "low" ELSE "high"]
              IN  /\ streamed = blocking
                  /\ cache_key \in DOMAIN cache'
                  /\ cache'[cache_key].value = payload
                  /\ cache'[cache_key].ttl =
                        IF query[q].docs = {} THEN NegativeTtl ELSE PositiveTtl
      ]_vars

\* C22 as claimed: every step that ends a request with a response, in
\* either variant and on every path, adds exactly one QueryLog row, which
\* carries the result count, the cache-hit flag and the confidence tag of
\* the response (a streamed response has no confidence tag) and the routed
\* agent; no other step adds a row, and no row already written is changed
\* or removed.
OneLogRowPerServedQuery ==
    [][/\ Len(query_log') >= Len(query_log)
       /\ SubSeq(query_log', 1, Len(query_log)) = query_log
       /\ \A q \in QProcs :
            IF query[q].pc /= "done" /\ query'[q].pc = "done"
            THEN /\ Len(query_log') = Len(query_log) + 1
                 /\ LET row == query_log'[Len(query_log')]
                    IN  /\ row.result_count = Cardinality(query'[q].sources)
                        /\ row.cached = query'[q].cached
                        /\ query'[q].variant = "blocking" =>
                              row.confidence = query'[q].confidence
                        /\ row.routed_to = query'[q].routed_to
            ELSE query_log' = query_log
      ]_vars

\* C23: when the insert or the commit of the QueryLog row fails, the
\* request still ends with its response: rag_query returns the answer it
\* built and rag_query_stream sends its end event last; no row is added,
\* and the cache entry and the history turn written before the log call
\* stand as written.
LogFailureNeverFailsResponse ==
    [][\A q \in QProcs :
          (~query[q].log_failed /\ query'[q].log_failed) =>
              LET cache_key == GetKey(query[q].text, query[q].department)
                  s == query[q].session_id
                  answer == query'[q].answer
                  turn == [role |-> "assistant", content |-> answer]
              IN  /\ query'[q].pc = "done"
                  /\ query_log' = query_log
                  /\ query'[q].calls[Len(query'[q].calls)] = "log_query"
                  /\ IF query[q].variant = "blocking"
                     THEN /\ query'[q].confidence = "high"
                          /\ IF query'[q].routed_to = "rag"
                             THEN /\ answer = query'[q].partial
                                         \o (IF query'[q].gen_failed
                                             THEN GenerationErrorText ELSE <<>>)
                                  /\ cache_key \in DOMAIN cache'
                                  /\ cache'[cache_key].value =
                                        [answer |-> answer,
                                         sources |-> query'[q].sources,
                                         confidence |-> "high"]
                                  /\ cache'[cache_key].ttl = PositiveTtl
                                  /\ \A k \in DOMAIN cache \ {cache_key} :
                                        k \in DOMAIN cache' /\ cache'[k] = cache[k]
                             ELSE cache' = cache
                          /\ IF s /= None
                             THEN history' = [history EXCEPT ![s] = Append(@, turn)]
                             ELSE history' = history
                     ELSE /\ query'[q].events[Len(query'[q].events)] = Event("end", <<>>)
                          /\ cache' = cache
                          /\ IF s /= None /\ answer /= <<>>
                             THEN history' = [history EXCEPT ![s] = Append(@, turn)]
                             ELSE history' = history
      ]_vars

\* A blocking request with a session whose generated answer was returned,
\* cached and appended to the history although its QueryLog insert failed.
C23_Witness ==
    \E q \in QProcs :
        /\ query[q].pc = "done"
        /\ query[q].log_failed
        /\ query[q].variant = "blocking"
        /\ query[q].routed_to = "rag"
        /\ query[q].session_id /= None
        /\ query[q].answer /= <<>>
        /\ GetKey(query[q].text, query[q].department) \in DOMAIN cache
        /\ query_log = <<>>

\* The words of the chunks with the first `overlap` words of every chunk
\* but the first removed.
RECURSIVE Rejoined(_, _)
Rejoined(chunk_texts, overlap) ==
    IF chunk_texts = <<>> THEN <<>>
    ELSE LET n == Len(chunk_texts)
             ws == Split(chunk_texts[n])
         IN  IF n = 1 THEN ws
             ELSE Rejoined(SubSeq(chunk_texts, 1, n - 1), overlap)
                  \o PySlice(ws, overlap, Len(ws))

\* C24: a call of _chunk_text with 0 <= overlap < chunk_size returns, after
\* no more iterations than the text has words; every chunk it returns is
\* non-empty, and the chunks rejoined without the overlapping words are
\* the words of the text in order; a text without words returns no chunk,
\* whatever the other arguments.
ChunkingReconstructsWords ==
    /\ [](call.op = "chunk_text" =>
            /\ (Split(call.text) = <<>>) =>
                  call.pc = "returned" /\ call.chunks = <<>>
            /\ (call.overlap < call.chunk_size) =>
                  /\ Len(call.chunks) <= Len(Split(call.text))
                  /\ \A k \in DOMAIN call.chunks : call.chunks[k] /= <<>>
                  /\ call.pc = "returned" =>
                        Rejoined(call.chunks, call.overlap) = Split(call.text))
    /\ [](call.op = "chunk_text" /\ call.overlap < call.chunk_size =>
            <>(call.op = "chunk_text" /\ call.pc = "returned"))

\* A returned call on a text of three or more words, the first two of
\* different lengths, cut with an overlap into chunks that repeat words.
C24_Witness ==
    /\ call.op = "chunk_text"
    /\ call.pc = "returned"
    /\ call.overlap > 0
    /\ call.overlap < call.chunk_size
    /\ Len(call.chunks) >= 2
    /\ Len(Split(call.text)) >= 3
    /\ Split(call.text)[1] /= Split(call.text)[2]

\* C25 as claimed: a call of _chunk_text with overlap >= chunk_size on a
\* text that has words is rejected: it raises a configuration error before
\* the loop and holds no chunk.
OverlapRejected ==
    (/\ call.op = "chunk_text"
     /\ call.overlap >= call.chunk_size
     /\ Split(call.text) /= <<>>) =>
        /\ call.pc = "raised"
        /\ call.chunks = <<>>

\* C26: the vector id of a chunk row is the one derived from its document
\* id and chunk index; no two chunk rows of different documents or indexes
\* share a vector id; for every committed chunk row the index holds exactly
\* one record under its vector id, with the same document id and chunk
\* index; and the chunk_count a call returns is the number of chunk rows
\* committed and of vectors upserted for its document.
VectorIdIsJoinKey ==
    /\ \A c \in chunks : c.vector_id = VectorId(c.document_id, c.chunk_index)
    /\ \A c1 \in chunks, c2 \in chunks :
          c1.vector_id = c2.vector_id =>
              c1.document_id = c2.document_id /\ c1.chunk_index = c2.chunk_index
    /\ \A c \in chunks :
          /\ Cardinality({v \in vectors : v.id = c.vector_id}) = 1
          /\ \A v \in vectors :
                v.id = c.vector_id =>
                    v.document_id = c.document_id /\ v.chunk_index = c.chunk_index
    /\ returned.result = "ok" =>
          /\ returned.chunk_count =
                Cardinality({c \in chunks : c.document_id = returned.id})
          /\ returned.chunk_count =
                Cardinality({v \in vectors : v.document_id = returned.id})

\* Two documents with chunk rows at the same indexes are committed, the
\* later call having just returned its chunk_count.
C26_Witness ==
    /\ returned.result = "ok"
    /\ returned.chunk_count = ChunkCount(700)
    /\ \E c1 \in chunks, c2 \in chunks :
          /\ c1.document_id /= c2.document_id
          /\ c1.chunk_index = c2.chunk_index
          /\ c2.document_id = returned.id

\* C27: no step removes a Document or DocumentChunk row or changes the
\* title, department or version of a Document; the active flag of a
\* Document changes only from true to false, and only at the commit of
\* another ingestion of the same (title, department), whose own Document
\* becomes visible with it.
DocumentLifecycleMonotonic ==
    [][/\ chunks \subseteq chunks'
       /\ \A d \in documents :
            \E e \in documents' :
                /\ e.id = d.id
                /\ e.title = d.title
                /\ e.department = d.department
                /\ e.version = d.version
                /\ e.is_active => d.is_active
                /\ (d.is_active /\ ~e.is_active) =>
                      \E p \in Procs :
                          /\ ingest[p].pc = "commit"
                          /\ ingest'[p].pc = "idle"
                          /\ ingest[p].version > 1
                          /\ ingest[p].title = d.title
                          /\ ingest[p].department = d.department
                          /\ ingest[p].doc_id /= d.id
                          /\ \E n \in documents' \ documents :
                                n.id = ingest[p].doc_id /\ n.is_active
       /\ \A e \in documents' :
            Cardinality({x \in documents' : x.id = e.id}) = 1
      ]_vars

\* A committed Document with its chunk rows, after a later ingestion of
\* its (title, department) has run (its version 2 vectors are in the index)
\* and after a Document of another pair has been committed.
C27_Witness ==
    /\ \A p \in Procs : ~InFlight(p)
    /\ \E d \in documents, e \in documents :
          /\ d.id < e.id
          /\ ~SamePair(d, e)
          /\ d.is_active
          /\ \E c \in chunks : c.document_id = d.id
          /\ \E v \in vectors :
                /\ v.title = d.title
                /\ v.department = d.department
                /\ v.version > d.version

\* C28: an ingestion that got version 1 supersedes nothing; one with a
\* higher version, once all its vectors are upserted, goes on to the
\* supersession and picks every active Document of its (title,
\* department) other than its own; its
\* commit marks exactly these inactive and leaves every other Document as
\* it was, and by then the vector records of all their chunks have
\* is_active = false.
SupersessionBeforeCommit ==
    [][\A p \in Procs :
          /\ (ingest[p].pc = "upsert"
                /\ ingest[p].idx = ingest[p].nchunks
                /\ ingest'[p] /= ingest[p]) =>
                IF ingest[p].version > 1
                THEN /\ ingest'[p].pc \in {"update_metadata", "commit"}
                     /\ ingest'[p].old_docs =
                           {d.id : d \in {x \in documents :
                                             /\ x.title = ingest[p].title
                                             /\ x.department = ingest[p].department
                                             /\ x.is_active
                                             /\ x.id /= ingest[p].doc_id}}
                ELSE ingest'[p].old_docs = {} /\ ingest'[p].pc = "commit"
          /\ (ingest[p].pc = "commit" /\ ingest'[p].pc = "idle") =>
                /\ ingest[p].version = 1 => ingest[p].old_docs = {}
                /\ ingest[p].ids = {}
                /\ \A d \in documents :
                      IF d.id \in ingest[p].old_docs
                      THEN /\ d.title = ingest[p].title
                           /\ d.department = ingest[p].department
                           /\ d.id /= ingest[p].doc_id
                           /\ [d EXCEPT !.is_active = FALSE] \in documents'
                      ELSE d \in documents'
                /\ \A c \in chunks :
                      c.document_id \in ingest[p].old_docs =>
                          \A v \in vectors : v.id = c.vector_id => ~v.is_active
                /\ vectors' = vectors
      ]_vars

\* C29: when no ingestion is in flight and the last call returned its
\* DocumentResponse, every committed DocumentChunk has exactly one vector
\* record under its vector id, whose department, title and version are
\* those of the chunk's Document and whose is_active flag is the Document's.
VectorMetadataMirrors ==
    ((\A p \in Procs : ~InFlight(p)) /\ returned.result = "ok") =>
        \A c \in chunks :
            \E d \in documents, v \in vectors :
                /\ d.id = c.document_id
                /\ v.id = c.vector_id
                /\ v.document_id = d.id
                /\ v.department = d.department
                /\ v.title = d.title
                /\ v.version = d.version
                /\ v.is_active = d.is_active
                /\ \A w \in vectors : w.id = v.id => w = v

\* Two Documents are committed, the later call has just returned, and the
\* index also holds vectors of an attempt that committed nothing.
C29_Witness ==
    /\ \A p \in Procs : ~InFlight(p)
    /\ returned.result = "ok"
    /\ \E c \in chunks : c.document_id = returned.id
    /\ \E d \in documents : d.id /= returned.id
    /\ \E v \in vectors : \A d \in documents : v.document_id /= d.id

\* C30: a request whose vector search raised has failed: it has no answer,
\* no sources and no streamed event, no generation and no cache write is
\* among its calls, and while it is the current request the result cache
\* gains no entry and changes none, and no QueryLog row is added.
SearchFailurePropagates ==
    /\ [](\A q \in QProcs :
            query[q].search_raised =>
                /\ query[q].pc = "failed"
                /\ query[q].answer = <<>>
                /\ query[q].sources = {}
                /\ query[q].events = <<>>
                /\ \A i \in DOMAIN query[q].calls :
                      query[q].calls[i] \notin {"generate", "cache_set"})
    /\ [][\A q \in QProcs :
            (query'[q].search_raised /\ requests' = requests) =>
                /\ \A key \in DOMAIN cache' :
                      key \in DOMAIN cache /\ cache'[key] = cache[key]
                /\ query_log' = query_log
                /\ history' = history
         ]_vars

\* The search of a request of either variant has raised while the index
\* holds an active vector of the caller's department.
C30_Witness ==
    \E q \in QProcs :
        /\ query[q].search_raised
        /\ query[q].calls[Len(query[q].calls)] = "search"
        /\ \E v \in vectors : Matches(v, query[q].search_filter)

\* C31: append_chat_message leaves the list as it was with the new turn
\* added at its end, and get_chat_history gives the last min(n, limit) of
\* the n stored turns, in the order they were appended.
Min(a, b) == IF a <= b THEN a ELSE b

ChatSessionAppendOnly ==
    /\ call.op = "append_chat_message" =>
          call.after = Append(call.before,
                              [role |-> call.role, content |-> call.content])
    /\ call.op = "get_chat_history" =>
          LET n == Len(call.before)
              k == Min(n, call.limit)
          IN  /\ Len(call.messages) = k
              /\ \A i \in 1..k : call.messages[i] = call.before[n - k + i]

\* C32: the search returns at most max_results matches, the source list of
\* the response that follows is the list of these matches, and no response
\* handed to the caller, from the cache or not, lists more sources than
\* its request's max_results.
ResultCapRespected ==
    [][\A q \in QProcs :
          /\ (query[q].pc = "retrieval" /\ query'[q].pc = "respond") =>
                Cardinality(query'[q].docs) <= query[q].max_results
          /\ (query[q].pc = "respond" /\ query'[q].pc = "done"
                /\ query[q].docs /= {}) =>
                query'[q].sources = query[q].docs
          /\ (query[q].pc = "cache_check" /\ query'[q].pc = "done") =>
                Cardinality(query'[q].sources) <= query[q].max_results
      ]_vars

\* C33: a query of department D is answered from the result cache only if
\* no Document of D has been committed since the entry was written.
CacheInvalidatedOnIngestion ==
    [][\A q \in QProcs :
          (query[q].pc = "cache_check" /\ query'[q].pc = "done") =>
              LET cache_key == GetKey(query[q].text, query[q].department)
              IN  \A d \in documents :
                      d.department = query[q].department =>
                          d.id \in cache[cache_key].committed_at_write
      ]_vars

\* C34: a call of invalidate_department(D) removes every result entry
\* whose key get_key built for D, gives the number of entries it removed,
\* and leaves every entry of another department and every chat history as
\* they were.
InvalidationFrame ==
    [][(call.op = "none" /\ call'.op = "invalidate_department") =>
          LET D == call'.department
              removed == DOMAIN cache \ DOMAIN cache'
          IN  /\ \A key \in DOMAIN cache' : key[2] /= D
              /\ \A key \in removed : key[2] = D
              /\ \A key \in DOMAIN cache' :
                    key \in DOMAIN cache /\ cache'[key] = cache[key]
              /\ call'.deleted = Cardinality(removed)
              /\ history' = history
      ]_vars

\* invalidate_department has just removed the entry of one department
\* while an entry of the other department and a chat history are stored.
C34_Witness ==
    /\ call.op = "invalidate_department"
    /\ call.deleted = 1
    /\ \E key \in DOMAIN cache : key[2] /= call.department
    /\ \E s \in Sessions : history[s] /= <<>>

\* C35: once the consumer has stopped a streamed query, no fragment of the
\* provider is consumed and no event is handed to the consumer beyond
\* those consumed and handed over when it stopped.
CancellationStopsStream ==
    \A q \in QProcs :
        query[q].cancelled =>
            /\ query[q].consumed = query[q].consumed_at_cancel
            /\ Len(query[q].events) = query[q].events_at_cancel

\* C36: when a query with a session id has its response, the session holds
\* the turns read at the start of the query, then one user turn with the
\* query, then one assistant turn with the answer given to the caller.
TurnPairPerResponse ==
    \A q \in QProcs :
        (query[q].pc = "done" /\ query[q].session_id /= None) =>
            history[query[q].session_id] =
                query[q].chat_history
                    \o <<[role |-> "user", content |-> query[q].text],
                         [role |-> "assistant", content |-> query[q].answer]>>

\* C37: the generic generation-error sentence is in no entry of the result
\* cache, so no response served from the cache carries it.
HoldsErrorText(answer) ==
    \E i \in DOMAIN answer : answer[i] = GenerationErrorText[1]

ErrorTextNeverCached ==
    /\ \A key \in DOMAIN cache : ~HoldsErrorText(cache[key].value.answer)
    /\ \A q \in QProcs :
          (query[q].pc = "done" /\ query[q].cached) =>
              ~HoldsErrorText(query[q].answer)

\* C38: when every query of a session has completed, the turns of the
\* session alternate, a user turn first and an assistant turn after each
\* user turn.
HistoryAlternates ==
    (\A q \in SessionProcs : Ended(q)) =>
        \A s \in Sessions :
            /\ Len(history[s]) % 2 = 0
            /\ \A i \in DOMAIN history[s] :
                  history[s][i].role = IF i % 2 = 1 THEN "user" ELSE "assistant"

\* No ingestion reaches update_metadata_by_ids: the read that precedes it in
\* _deactivate_old_versions raises for every version above 1, and version
\* 1 skips the supersession.
MetadataUpdateNeverReached ==
    \A p \in Procs : ingest[p].pc /= "update_metadata" /\ ingest[p].ids = {}

\* C40: a dispatched task is attempted at most MaxRetries + 1 times, and
\* the Documents committed since it was dispatched, all by its own
\* attempts, are at most one.
CommittedByTask == {d \in documents : d.id \notin call.committed_before}

TaskCommitsAtMostOnce ==
    call.op = "ingest_document_task" =>
        /\ call.attempts <= MaxRetries + 1
        /\ Cardinality(CommittedByTask) <= 1

\* The first attempt committed its Document and then failed; the retry,
\* given version 2, has failed as well and left the one Document.
C40_Witness ==
    /\ call.op = "ingest_document_task"
    /\ call.attempts >= 2
    /\ call.state \in {"retry", "failure"}
    /\ returned.result = "InvalidRequestError"
    /\ Cardinality(CommittedByTask) = 1

====
